---- MODULE Spec2Model ----
(***************************************************************************)
(* Questionnaire triage: field validation (basic_review), text screening   *)
(* (ambiguity_checker), the decision (decision_maker), the evaluation of   *)
(* one questionnaire (process_questionnaire) with its response log, and    *)
(* the keyword registry (KeywordManager) persisted in                      *)
(* data/suspicious_keywords.json, the Feedback Loop's tools (feedback.py)  *)
(* that write the same file, and the batch loop of main.py.                *)
(*                                                                         *)
(* A Python str is a sequence of one-character strings; an Optional value  *)
(* is None (the empty tuple) or Some(v) (the one-element tuple <<v>>).     *)
(* Amounts are integers: the code only compares them and tests them for    *)
(* falsiness.                                                              *)
(***************************************************************************)
EXTENDS Integers, Sequences, FiniteSets, TLC

VARIABLES
    reg_file,       \* data/suspicious_keywords.json: [status, keywords, patterns]
    km,             \* the KeywordManager instance: None, or Some([keywords, patterns])
    response_file,  \* data/response.json: [status, content]
    pc,             \* position of process_questionnaire
    questionnaire,  \* the Questionnaire being evaluated
    deps,           \* the Deps built for it (configuration and registry snapshot)
    review,         \* what decision_maker computed: missing, consulted, ambiguity
    response,       \* None, or Some(Response) returned by the last evaluation
    runs,           \* number of evaluations completed
    last_add,       \* Some(add_keyword call) while it is the last registry operation
    round_trip,     \* Some(before, after) of an add_keyword undone by remove_keyword
    fb,             \* the FeedbackDeps of feedback.py: None, or Some(record)
    last_op,        \* None, or Some(the last registry operation and the state it met)
    added,          \* what add operations saved and no remove operation took back
    started_with,   \* the registry file as the evaluation in progress loaded it
    batch,          \* the records of data/questionnaire.json, in input order
    idx,            \* how many records main's loop has taken
    outcomes        \* how each record main is through with ended

vars == <<reg_file, km, response_file, pc, questionnaire, deps, review,
          response, runs, last_add, round_trip, fb, last_op, added,
          started_with, batch, idx, outcomes>>

\* What process_questionnaire never touches, and what the registry operations
\* never touch.
writerVars == <<km, last_add, round_trip, fb, last_op, added>>
engineVars == <<response_file, pc, questionnaire, deps, review, response, runs,
                started_with, batch, idx, outcomes>>

----------------------------------------------------------------------------
(* Optional values and Python strings *)

None == <<>>
Some(x) == <<x>>

\* Characters of \w among the characters the model uses.
WordChars == {"a", "b", "c", "d", "e", "f", "g", "i", "k", "m", "n", "o", "p",
              "r", "s", "t", "u", "v", "w",
              "A", "B", "D", "T"}

\* Whitespace characters (str.strip, str.split).
SpaceChars == {" "}

\* The elements of a list.
Elements(seq) == {seq[i] : i \in 1..Len(seq)}

\* str.lower on one character.
LowerChar(c) ==
    CASE c = "A" -> "a"
      [] c = "B" -> "b"
      [] c = "D" -> "d"
      [] c = "T" -> "t"
      [] OTHER -> c

\* str.lower
Lower(s) == [i \in 1..Len(s) |-> LowerChar(s[i])]

\* str.strip() is empty: every character is whitespace.
StripIsEmpty(s) == \A i \in 1..Len(s) : s[i] \in SpaceChars

\* The literal of agent.py:110.
DoesNotMeet == <<"d", "o", "e", "s", " ", "n", "o", "t", " ", "m", "e", "e", "t">>

\* `needle in text` for Python strings.
Contains(text, needle) ==
    \E i \in 0..(Len(text) - Len(needle)) :
        \A j \in 1..Len(needle) : text[i + j] = needle[j]

\* re's \b at offset p of text (between text[p] and text[p+1]): exactly one side
\* is a word character; outside the text counts as a non-word character.
IsWordAt(text, p) == p >= 1 /\ p <= Len(text) /\ text[p] \in WordChars
WordBoundary(text, p) == IsWordAt(text, p) # IsWordAt(text, p + 1)

\* One literal character of a pattern against one character, under re.IGNORECASE.
CharMatches(pc0, c) == LowerChar(pc0) = LowerChar(c)

\* Mutant of KeywordSearch: the two \b are left out.
KeywordSearch_Substring(kw, text) ==
    \E i \in 0..(Len(text) - Len(kw)) :
        \A j \in 1..Len(kw) : CharMatches(kw[j], text[i + j])

\* re.search(r'\b' + re.escape(kw) + r'\b', text, re.IGNORECASE)
KeywordSearch(kw, text) ==
    \E i \in 0..(Len(text) - Len(kw)) :
        /\ WordBoundary(text, i)
        /\ \A j \in 1..Len(kw) : CharMatches(kw[j], text[i + j])
        /\ WordBoundary(text, i + Len(kw))

\* One element of a regular expression against one character: "." is any
\* character but a newline, any other character of the model is a literal.
PatternCharMatches(p, c) == p = "." \/ CharMatches(p, c)

\* Mutant of PatternSearch: re.fullmatch, the whole text has to match.
PatternSearch_FullMatch(expr, text) ==
    /\ Len(text) = Len(expr)
    /\ \A j \in 1..Len(expr) : PatternCharMatches(expr[j], text[j])

\* re.search(pattern, text, re.IGNORECASE) for expressions made of literals and ".".
PatternSearch(expr, text) ==
    \E i \in 0..(Len(text) - Len(expr)) :
        \A j \in 1..Len(expr) : PatternCharMatches(expr[j], text[i + j])

----------------------------------------------------------------------------
(* The questionnaire fields basic_review can be asked for *)

FlagFields == {"tax_id_provided", "signature_present"}

\* Deps.required_fields default
DefaultRequiredFields ==
    <<"investor_name", "investor_address", "investment_amount",
      "is_accredited_investor", "signature_present", "tax_id_provided">>

\* not value, for a bool
NotFlag(b) == ~b

\* not value, for a float: zero is falsy.
NotAmount(n) == n = 0

\* getattr(q, field_name) is None
IsNoneValue(q, f) ==
    CASE f = "investor_address" -> q.investor_address = None
      [] f = "investment_amount" -> q.investment_amount = None
      [] OTHER -> FALSE

\* Mutant of IsBlankStr: the test is value == "", without the strip().
IsBlankStr_NoStrip(q, f) ==
    CASE f = "investor_name" -> q.investor_name = <<>>
      [] f = "investor_address" ->
            q.investor_address # None /\ q.investor_address[1] = <<>>
      [] OTHER -> FALSE

\* isinstance(value, str) and not value.strip()
IsBlankStr(q, f) ==
    CASE f = "investor_name" -> StripIsEmpty(q.investor_name)
      [] f = "investor_address" ->
            q.investor_address # None /\ StripIsEmpty(q.investor_address[1])
      [] OTHER -> FALSE

\* agent.py:66-78, the body of the loop of basic_review for one field name.
FieldReported(q, d, f) ==
    IF f \in FlagFields
    THEN NotFlag(IF f = "tax_id_provided" THEN q.tax_id_provided
                                          ELSE q.signature_present)
    ELSE IF IsNoneValue(q, f) \/ IsBlankStr(q, f)
    THEN TRUE
    ELSE /\ f = "investment_amount"
         /\ \/ NotAmount(q.investment_amount[1])
            \/ q.investment_amount[1] <= d.min_investment_amount

\* Mutant of InitialMissing: the list outlives the call (a module-level list),
\* so it starts as the previous evaluation left it.
InitialMissing_Shared ==
    IF response = None THEN <<>> ELSE response[1].missing_fields

\* agent.py:61, missing_fields = []
InitialMissing == <<>>

\* basic_review: the reported fields, in the order of ctx.deps.required_fields.
basic_review(q, d) ==
    InitialMissing \o SelectSeq(d.required_fields, LAMBDA f : FieldReported(q, d, f))

\* agent.py:89-91
ScanText(q) ==
    Lower(q.accreditation_details \o <<" ">> \o q.source_of_funds_description)

\* `for kw in ctx.deps.suspicious_keywords`: the value is data["keywords"] of the
\* registry file, a dict keyed by category name, and iterating a dict yields its keys.
IterKeywords(kws) == DOMAIN kws

\* The same loop over whichever value the registry file held: feedback.py writes
\* data["keywords"] as a list of keywords, and iterating a list yields its elements.
ScreenedKeywords(d) ==
    IF d.keywords_listed THEN Elements(d.suspicious_keywords)
    ELSE IterKeywords(d.suspicious_keywords)

\* agent.py:96-101
AnyKeywordFound(q, d) ==
    \E kw \in ScreenedKeywords(d) : KeywordSearch(kw, ScanText(q))

\* agent.py:104-107
AnyPatternFound(q, d) ==
    \E i \in 1..Len(d.suspicious_patterns) :
        PatternSearch(d.suspicious_patterns[i].pattern, ScanText(q))

ReasonAmbiguous == "Ambiguous source of funds"
ReasonNotAccredited == "Investor is not accredited"

\* Mutant of ambiguity_checker: the phrase "does not meet" is looked for first.
ambiguity_checker_PhraseFirst(q, d) ==
    IF Contains(ScanText(q), DoesNotMeet) THEN Some(ReasonNotAccredited)
    ELSE IF AnyKeywordFound(q, d) THEN Some(ReasonAmbiguous)
    ELSE IF AnyPatternFound(q, d) THEN Some(ReasonAmbiguous)
    ELSE None

\* ambiguity_checker: Some(reason) or None.
ambiguity_checker(q, d) ==
    IF AnyKeywordFound(q, d) THEN Some(ReasonAmbiguous)
    ELSE IF AnyPatternFound(q, d) THEN Some(ReasonAmbiguous)
    ELSE IF Contains(ScanText(q), DoesNotMeet) THEN Some(ReasonNotAccredited)
    ELSE None

\* agent.py:131-132
AmountRejected(q, d) ==
    \/ q.investment_amount = None
    \/ NotAmount(q.investment_amount[1])
    \/ q.investment_amount[1] < d.min_investment_amount

\* Mutant of NotAccredited: the negation is lost.
NotAccredited_Inverted(q) == q.is_accredited_investor

\* agent.py:136
NotAccredited(q) == ~q.is_accredited_investor

\* decision_maker, with what it looked at on the way: the list basic_review gave
\* it, whether it called ambiguity_checker, and what that call returned.
DecisionTrace(q, d) ==
    LET missing == basic_review(q, d) IN
    IF missing # <<>>
    THEN [decision |-> "Return", missing |-> missing,
          consulted |-> FALSE, ambiguity |-> None]
    ELSE IF AmountRejected(q, d)
    THEN [decision |-> "Return", missing |-> missing,
          consulted |-> FALSE, ambiguity |-> None]
    ELSE IF NotAccredited(q)
    THEN [decision |-> "Escalate", missing |-> missing,
          consulted |-> FALSE, ambiguity |-> None]
    ELSE LET ambiguity == ambiguity_checker(q, d) IN
         [decision |-> IF ambiguity # None THEN "Escalate" ELSE "Approve",
          missing |-> missing, consulted |-> TRUE, ambiguity |-> ambiguity]

decision_maker(q, d) == DecisionTrace(q, d).decision

\* Mutant of EscalationReason: the reason is asked for only when the Text
\* Screener decided the classification.
EscalationReason_AccreditedOnly(q, d, decision) ==
    IF decision = "Escalate" /\ q.is_accredited_investor
    THEN ambiguity_checker(q, d) ELSE None

\* agent.py:192-195
EscalationReason(q, d, decision) ==
    IF decision = "Escalate" THEN ambiguity_checker(q, d) ELSE None

\* agent.py:189-203, the Response object.
MakeResponse(q, d) ==
    LET decision == decision_maker(q, d) IN
    [questionnaire_id |-> q.questionnaire_id,
     decision |-> decision,
     missing_fields |-> basic_review(q, d),
     escalation_reason |-> EscalationReason(q, d, decision)]

\* agent.py:215-221, response.model_dump() as it is logged.
ResponseDict(r) ==
    [questionnaire_id |-> r.questionnaire_id,
     decision |-> r.decision,
     missing_fields |-> IF r.missing_fields = <<>> THEN None
                        ELSE Some(r.missing_fields),
     escalation_reason |-> IF r.decision # "Escalate" THEN None
                           ELSE r.escalation_reason]

\* Mutant of LoadResponses: every call starts its log afresh.
LoadResponses_Fresh(f) == <<>>

\* agent.py:206-212, the log as read back: empty when the file is missing or corrupt.
LoadResponses(f) == IF f.status = "ok" THEN f.content ELSE <<>>

\* The registry file parses and holds both entries: "ok" with data["keywords"] a
\* dict of categories, "listed" with data["keywords"] a list of keywords.
Parses(f) == f.status \in {"ok", "listed"}

\* json.load raises neither FileNotFoundError nor JSONDecodeError but the file
\* lacks "keywords" or "patterns": the KeyError of data[...] is not caught.
LoadRaises(f) == f.status \in {"nokeys", "keywords_only", "patterns_only"}

\* Mutant of RegistryAfterLoad: a missing or corrupt file is replaced by an
\* empty registry, as KeywordManager.load_keywords does.
RegistryAfterLoad_Recovering(f) ==
    IF f.status \in {"missing", "corrupt"}
    THEN [status |-> "ok", keywords |-> <<>>, patterns |-> <<>>]
    ELSE f

\* agent.py:34-41: the registry file after load_suspicious_terms, which opens it
\* with mode "r" and writes nothing, also in its except clause.
RegistryAfterLoad(f) == f

\* load_suspicious_terms: <<keywords, patterns>>, or <<[], []>> on a missing or
\* corrupt file. The third component says whether keywords is a list.
load_suspicious_terms(f) ==
    IF Parses(f) THEN <<f.keywords, f.patterns, f.status = "listed">>
    ELSE <<<<>>, <<>>, TRUE>>

----------------------------------------------------------------------------
(* process_questionnaire *)

Q == questionnaire[1]
D == deps[1]

\* Deps(...) of agent.py:155-159 over the configuration fields of the dataclass.
MakeDeps(cfg, terms) ==
    [min_investment_amount |-> cfg.min_investment_amount,
     required_fields |-> cfg.required_fields,
     suspicious_keywords |-> terms[1],
     suspicious_patterns |-> terms[2],
     keywords_listed |-> terms[3]]

\* Deps defaults, agent.py:21-29
DefaultConfig ==
    [min_investment_amount |-> 0, required_fields |-> DefaultRequiredFields]

\* agent.py:150-159: load the terms and build the Deps. A registry file without
\* the two entries raises out of process_questionnaire.
Start(q, cfg) ==
    /\ questionnaire' = Some(q)
    /\ IF LoadRaises(reg_file)
       THEN /\ pc' = "failed"
            /\ deps' = None
       ELSE /\ pc' = "agent_run"
            /\ deps' = Some(MakeDeps(cfg, load_suspicious_terms(reg_file)))
    /\ review' = None
    /\ started_with' = Some(reg_file)
    /\ reg_file' = RegistryAfterLoad(reg_file)
    /\ UNCHANGED <<response_file, response, runs>>
    /\ UNCHANGED writerVars

\* agent.py:162-178: the agent run returns. The tools it may call on the way
\* (basic_review, ambiguity_checker, decision_maker) only read the Deps, and
\* its result is not used.
AgentRunReturns ==
    /\ pc = "agent_run"
    /\ pc' = "decide"
    /\ UNCHANGED <<reg_file, response_file, questionnaire, deps, review,
                   response, runs, started_with, batch, idx, outcomes>>
    /\ UNCHANGED writerVars

\* agent.py:162-178: the agent run raises (the model call fails, retries are
\* exhausted); process_questionnaire ends without a Response.
AgentRunRaises ==
    /\ pc = "agent_run"
    /\ pc' = "failed"
    /\ UNCHANGED <<reg_file, response_file, questionnaire, deps, review,
                   response, runs, started_with, batch, idx, outcomes>>
    /\ UNCHANGED writerVars

\* Mutant of ToolDeps: the registry file is read again for the tool context.
ToolDeps_Reloaded ==
    MakeDeps([min_investment_amount |-> D.min_investment_amount,
              required_fields |-> D.required_fields],
             load_suspicious_terms(reg_file))

\* agent.py:181-186: RunContext(deps=deps, ...), the Deps built before the agent run.
ToolDeps == D

\* agent.py:181-228: decide, build the Response, append its dict to the log.
Finish ==
    /\ pc = "decide"
    /\ LET r == MakeResponse(Q, ToolDeps) IN
       /\ response' = Some(r)
       /\ response_file' =
            [status |-> "ok",
             content |-> Append(LoadResponses(response_file), ResponseDict(r))]
    /\ review' = Some(DecisionTrace(Q, ToolDeps))
    /\ runs' = runs + 1
    /\ pc' = "done"
    /\ UNCHANGED <<reg_file, questionnaire, deps, started_with, batch, idx,
                   outcomes>>
    /\ UNCHANGED writerVars

----------------------------------------------------------------------------
(* KeywordManager *)

KM == km[1]

\* list.remove(x): the list without its first x.
ListRemove(seq, x) ==
    LET i == CHOOSE k \in 1..Len(seq) :
                 seq[k] = x /\ \A j \in 1..(k - 1) : seq[j] # x
    IN SubSeq(seq, 1, i - 1) \o SubSeq(seq, i + 1, Len(seq))

\* keyword_manager.py:26-33, the file save_keywords writes.
SavedFile(keywords, patterns) ==
    [status |-> "ok", keywords |-> keywords, patterns |-> patterns]

\* keyword_manager.py:35-40, get_all_keywords
get_all_keywords(keywords) ==
    UNION {Elements(keywords[c].examples) : c \in DOMAIN keywords}

\* keyword_manager.py:42-44, get_all_patterns
get_all_patterns(patterns) == [i \in 1..Len(patterns) |-> patterns[i].pattern]

\* keyword_manager.py:52-53: description or f"Keywords related to {category}"
DescriptionOrDefault(category, description) ==
    IF description = None \/ description = Some("")
    THEN <<"Keywords related to ", category>>
    ELSE description

\* keyword_manager.py:49-55: the category is created when it is not there.
WithCategory(keywords, category, description) ==
    IF category \in DOMAIN keywords THEN keywords
    ELSE keywords @@
         (category :> [category |-> "medium_risk",
                       description |-> DescriptionOrDefault(category, description),
                       examples |-> <<>>])

\* Mutant of WithoutKeyword: the keyword is removed from every category that
\* holds it.
WithoutKeyword_EveryCategory(keywords, category, keyword) ==
    [c \in DOMAIN keywords |->
        IF keyword \in Elements(keywords[c].examples)
        THEN [keywords[c] EXCEPT !.examples = ListRemove(@, keyword)]
        ELSE keywords[c]]

\* keyword_manager.py:73
WithoutKeyword(keywords, category, keyword) ==
    [keywords EXCEPT ![category].examples = ListRemove(@, keyword)]

\* save_keywords for an instance whose keywords may be a list.
save_keywords(m) ==
    [status |-> IF m.listed THEN "listed" ELSE "ok",
     keywords |-> m.keywords, patterns |-> m.patterns]

\* The last registry operation: who ran it, which one, whether it returned (or
\* raised), whether it wrote the file, whether what it was to add or remove was
\* already in the caller's registry, and the status of the file it met.
Op(actor, op, returned, wrote, present) ==
    Some([actor |-> actor, op |-> op, returned |-> returned, wrote |-> wrote,
          present |-> present, met |-> reg_file.status])

\* KeywordManager(): __init__ runs load_keywords. A missing or corrupt file gives
\* an empty registry, saved at once; a file without the two entries raises
\* KeyError and no instance is made.
KM_New ==
    /\ km = None
    /\ IF Parses(reg_file)
       THEN /\ km' = Some([keywords |-> reg_file.keywords,
                           patterns |-> reg_file.patterns,
                           listed |-> reg_file.status = "listed"])
            /\ UNCHANGED reg_file
       ELSE IF LoadRaises(reg_file)
       THEN UNCHANGED <<km, reg_file>>
       ELSE /\ km' = Some([keywords |-> <<>>, patterns |-> <<>>, listed |-> FALSE])
            /\ reg_file' = SavedFile(<<>>, <<>>)
    /\ last_op' = Op("km", "load", ~LoadRaises(reg_file),
                     ~Parses(reg_file) /\ ~LoadRaises(reg_file), FALSE)
    /\ UNCHANGED <<last_add, round_trip, fb, added>>
    /\ UNCHANGED engineVars

\* KeywordManager.add_keyword. When self.keywords is a list, both
\* self.keywords[category] = {...} and self.keywords[category]["examples"]
\* raise TypeError.
KM_AddKeyword(category, keyword, description) ==
    /\ km # None
    /\ IF KM.listed
       THEN /\ UNCHANGED <<km, reg_file, added>>
            /\ last_op' = Op("km", "add_keyword", FALSE, FALSE, FALSE)
       ELSE LET created == WithCategory(KM.keywords, category, description) IN
       IF keyword \notin Elements(created[category].examples)
       THEN LET added_to == [created EXCEPT ![category].examples = Append(@, keyword)]
            IN /\ km' = Some([KM EXCEPT !.keywords = added_to])
               /\ reg_file' = SavedFile(added_to, KM.patterns)
               /\ added' = [added EXCEPT !.terms = @ \cup {<<category, keyword>>}]
               /\ last_op' = Op("km", "add_keyword", TRUE, TRUE, FALSE)
       ELSE /\ km' = Some([KM EXCEPT !.keywords = created])
            /\ UNCHANGED <<reg_file, added>>
            /\ last_op' = Op("km", "add_keyword", TRUE, FALSE, TRUE)
    /\ last_add' = IF KM.listed THEN None
                   ELSE Some([category |-> category, keyword |-> keyword,
                              before |-> KM.keywords])
    /\ round_trip' = None
    /\ UNCHANGED fb
    /\ UNCHANGED engineVars

\* KeywordManager.remove_keyword. When self.keywords is a list that holds
\* category, self.keywords[category] raises TypeError.
KM_RemoveKeyword(category, keyword) ==
    /\ km # None
    /\ IF KM.listed
       THEN /\ UNCHANGED <<km, reg_file, added>>
            /\ last_op' = Op("km", "remove_keyword",
                             category \notin Elements(KM.keywords), FALSE, FALSE)
            /\ round_trip' = None
       ELSE
       /\ IF /\ category \in DOMAIN KM.keywords
             /\ keyword \in Elements(KM.keywords[category].examples)
          THEN LET removed == WithoutKeyword(KM.keywords, category, keyword) IN
               /\ km' = Some([KM EXCEPT !.keywords = removed])
               /\ reg_file' = SavedFile(removed, KM.patterns)
               /\ added' = [added EXCEPT !.terms = @ \ {<<category, keyword>>}]
               /\ last_op' = Op("km", "remove_keyword", TRUE, TRUE, TRUE)
          ELSE /\ UNCHANGED <<km, reg_file, added>>
               /\ last_op' = Op("km", "remove_keyword", TRUE, FALSE, FALSE)
       /\ round_trip' =
             IF /\ last_add # None
                /\ last_add[1].category = category
                /\ last_add[1].keyword = keyword
             THEN Some([category |-> category, keyword |-> keyword,
                        before |-> last_add[1].before, after |-> km'[1].keywords])
             ELSE None
    /\ last_add' = None
    /\ UNCHANGED fb
    /\ UNCHANGED engineVars

\* KeywordManager.add_pattern
KM_AddPattern(expr, description) ==
    /\ km # None
    /\ IF ~\E i \in 1..Len(KM.patterns) : KM.patterns[i].pattern = expr
       THEN LET added_to == Append(KM.patterns,
                                   [pattern |-> expr, description |-> description])
            IN /\ km' = Some([KM EXCEPT !.patterns = added_to])
               /\ reg_file' = save_keywords([KM EXCEPT !.patterns = added_to])
               /\ added' = [added EXCEPT !.patterns = @ \cup {expr}]
               /\ last_op' = Op("km", "add_pattern", TRUE, TRUE, FALSE)
       ELSE /\ UNCHANGED <<km, reg_file, added>>
            /\ last_op' = Op("km", "add_pattern", TRUE, FALSE, TRUE)
    /\ last_add' = None
    /\ round_trip' = None
    /\ UNCHANGED fb
    /\ UNCHANGED engineVars

\* KeywordManager.remove_pattern: saves whether or not a pattern went.
KM_RemovePattern(expr) ==
    /\ km # None
    /\ LET kept == SelectSeq(KM.patterns, LAMBDA p : p.pattern # expr) IN
       /\ km' = Some([KM EXCEPT !.patterns = kept])
       /\ reg_file' = save_keywords([KM EXCEPT !.patterns = kept])
    /\ added' = [added EXCEPT !.patterns = @ \ {expr}]
    /\ last_op' = Op("km", "remove_pattern", TRUE, TRUE,
                     \E i \in 1..Len(KM.patterns) : KM.patterns[i].pattern = expr)
    /\ last_add' = None
    /\ round_trip' = None
    /\ UNCHANGED fb
    /\ UNCHANGED engineVars

\* str.split(): the maximal runs of characters that are not whitespace, from
\* position i of s on; cur is the run being read.
RECURSIVE SplitFrom(_, _, _)
SplitFrom(s, i, cur) ==
    IF i > Len(s)
    THEN (IF cur = <<>> THEN <<>> ELSE <<cur>>)
    ELSE IF s[i] \in SpaceChars
    THEN (IF cur = <<>> THEN <<>> ELSE <<cur>>) \o SplitFrom(s, i + 1, <<>>)
    ELSE SplitFrom(s, i + 1, Append(cur, s[i]))

Split(s) == SplitFrom(s, 1, <<>>)

\* The characters of a Python str as one string.
RECURSIVE Join(_)
Join(s) == IF s = <<>> THEN "" ELSE s[1] \o Join(Tail(s))

\* keyword_manager.py:89: the category update_from_feedback adds to.
S_feedback == <<"f", "e", "e", "d", "b", "a", "c", "k">>

\* keyword_manager.py:91: f"Added from feedback: {feedback_text[:50]}..."
FeedbackDescription(feedback_text) ==
    "Added from feedback: "
        \o Join(SubSeq(feedback_text, 1,
                       IF Len(feedback_text) < 50 THEN Len(feedback_text) ELSE 50))
        \o "..."

\* add_keyword on a dict of categories: what self.keywords is afterwards.
KeywordAdded(keywords, category, keyword, description) ==
    LET created == WithCategory(keywords, category, description) IN
    IF keyword \notin Elements(created[category].examples)
    THEN [created EXCEPT ![category].examples = Append(@, keyword)]
    ELSE created

\* keyword_manager.py:85-87: the words of the feedback text that are longer
\* than three characters, in order.
FeedbackWords(feedback_text) ==
    SelectSeq(Split(Lower(feedback_text)), LAMBDA w : Len(w) > 3)

\* keyword_manager.py:86-92: add_keyword("feedback", word, ...) for each word.
RECURSIVE AddWords(_, _, _)
AddWords(keywords, words, description) ==
    IF words = <<>> THEN keywords
    ELSE AddWords(KeywordAdded(keywords, S_feedback, Head(words), description),
                  Tail(words), description)

\* KeywordManager.update_from_feedback. Each word that was not yet an example
\* of "feedback" is saved by its add_keyword; with self.keywords a list the
\* first add_keyword raises TypeError.
KM_UpdateFromFeedback(feedback_text) ==
    /\ km # None
    /\ LET words == FeedbackWords(feedback_text) IN
       IF KM.listed
       THEN /\ UNCHANGED <<km, reg_file, added>>
            /\ last_op' = Op("km", "update_from_feedback", words = <<>>, FALSE, FALSE)
       ELSE LET updated == AddWords(KM.keywords, words,
                                    Some(FeedbackDescription(feedback_text)))
                fresh == {w \in Elements(words) :
                             \/ S_feedback \notin DOMAIN KM.keywords
                             \/ w \notin Elements(KM.keywords[S_feedback].examples)}
            IN /\ km' = Some([KM EXCEPT !.keywords = updated])
               /\ reg_file' = IF fresh = {} THEN reg_file
                              ELSE SavedFile(updated, KM.patterns)
               /\ added' = [added EXCEPT
                               !.terms = @ \cup {<<S_feedback, w>> : w \in fresh}]
               /\ last_op' = Op("km", "update_from_feedback", TRUE, fresh # {},
                                words # <<>> /\ fresh = {})
    /\ last_add' = None
    /\ round_trip' = None
    /\ UNCHANGED fb
    /\ UNCHANGED engineVars

----------------------------------------------------------------------------
(* The Feedback Loop: the tools of feedback.py over a FeedbackDeps *)

FB == fb[1]

\* FeedbackDeps(): both lists empty.
NewFeedbackDeps ==
    [current_keywords |-> <<>>, current_patterns |-> <<>>, listed |-> TRUE]

\* load_current_data: what it leaves in the deps d. A missing or corrupt file
\* leaves d alone (the default dict is only returned); a file without
\* "keywords" raises KeyError before anything is assigned, and one without
\* "patterns" raises it after current_keywords was assigned.
LoadedDeps(d, f) ==
    IF Parses(f)
    THEN [current_keywords |-> f.keywords, current_patterns |-> f.patterns,
          listed |-> f.status = "listed"]
    ELSE IF f.status = "keywords_only"
    THEN [d EXCEPT !.current_keywords = f.keywords, !.listed = TRUE]
    ELSE d

\* feedback.py:53-58: data = json.load(f); data["keywords"] = list; the file is
\* rewritten with whatever else data held.
WithKeywordsEntry(f, keywords) ==
    [status |-> IF f.status \in {"nokeys", "keywords_only"} THEN "keywords_only"
                ELSE "listed",
     keywords |-> keywords,
     patterns |-> f.patterns]

\* feedback.py:72-77: data = json.load(f); data["patterns"] = list.
WithPatternsEntry(f, patterns) ==
    [status |-> IF f.status \in {"nokeys", "patterns_only"} THEN "patterns_only"
                ELSE IF f.status = "keywords_only" THEN "listed"
                ELSE f.status,
     keywords |-> f.keywords,
     patterns |-> patterns]

\* open(file, "r+") raises FileNotFoundError, or json.load raises JSONDecodeError.
RewriteRaises(f) == f.status \in {"missing", "corrupt"}

\* feedback.py:80-90, the opening of main: deps = FeedbackDeps() and
\* load_current_data(ctx). A KeyError ends the run.
FB_New ==
    /\ fb' = IF LoadRaises(reg_file) THEN None
             ELSE Some(LoadedDeps(NewFeedbackDeps, reg_file))
    /\ last_op' = Op("fb", "load", ~LoadRaises(reg_file), FALSE, FALSE)
    /\ last_add' = None
    /\ round_trip' = None
    /\ UNCHANGED <<reg_file, km, added>>
    /\ UNCHANGED engineVars

\* The tool load_current_data, called again on the same deps.
FB_Load ==
    /\ fb # None
    /\ fb' = Some(LoadedDeps(FB, reg_file))
    /\ last_op' = Op("fb", "load", ~LoadRaises(reg_file), FALSE, FALSE)
    /\ last_add' = None
    /\ round_trip' = None
    /\ UNCHANGED <<reg_file, km, added>>
    /\ UNCHANGED engineVars

\* The tool add_keyword. With current_keywords the dict of categories of a
\* KeywordManager file, `keyword not in` tests the category names and append
\* raises AttributeError; with a list, the keyword is appended before the file
\* is opened.
FB_AddKeyword(keyword) ==
    /\ fb # None
    /\ IF ~FB.listed
       THEN /\ UNCHANGED <<fb, reg_file, added>>
            /\ last_op' = Op("fb", "add_keyword",
                             keyword \in DOMAIN FB.current_keywords, FALSE,
                             keyword \in DOMAIN FB.current_keywords)
       ELSE IF keyword \in Elements(FB.current_keywords)
       THEN /\ UNCHANGED <<fb, reg_file, added>>
            /\ last_op' = Op("fb", "add_keyword", TRUE, FALSE, TRUE)
       ELSE LET appended == Append(FB.current_keywords, keyword) IN
            /\ fb' = Some([FB EXCEPT !.current_keywords = appended])
            /\ IF RewriteRaises(reg_file)
               THEN /\ UNCHANGED <<reg_file, added>>
                    /\ last_op' = Op("fb", "add_keyword", FALSE, FALSE, FALSE)
               ELSE /\ reg_file' = WithKeywordsEntry(reg_file, appended)
                    /\ added' = [added EXCEPT !.terms = @ \cup {<<<<>>, keyword>>}]
                    /\ last_op' = Op("fb", "add_keyword", TRUE, TRUE, FALSE)
    /\ last_add' = None
    /\ round_trip' = None
    /\ UNCHANGED km
    /\ UNCHANGED engineVars

\* The tool add_pattern: the new dict is compared whole, pattern and description.
FB_AddPattern(expr, description) ==
    /\ fb # None
    /\ LET new_pattern == [pattern |-> expr, description |-> description]
           known == \E i \in 1..Len(FB.current_patterns) :
                       FB.current_patterns[i].pattern = expr
       IN
       IF new_pattern \in Elements(FB.current_patterns)
       THEN /\ UNCHANGED <<fb, reg_file, added>>
            /\ last_op' = Op("fb", "add_pattern", TRUE, FALSE, TRUE)
       ELSE LET appended == Append(FB.current_patterns, new_pattern) IN
            /\ fb' = Some([FB EXCEPT !.current_patterns = appended])
            /\ IF RewriteRaises(reg_file)
               THEN /\ UNCHANGED <<reg_file, added>>
                    /\ last_op' = Op("fb", "add_pattern", FALSE, FALSE, known)
               ELSE /\ reg_file' = WithPatternsEntry(reg_file, appended)
                    /\ added' = [added EXCEPT !.patterns = @ \cup {expr}]
                    /\ last_op' = Op("fb", "add_pattern", TRUE, TRUE, known)
    /\ last_add' = None
    /\ round_trip' = None
    /\ UNCHANGED km
    /\ UNCHANGED engineVars

----------------------------------------------------------------------------
(* Bounded inputs *)

MaxLen == 3        \* longest accreditation_details drawn exhaustively
MaxAmount == 2     \* largest investment_amount
MaxRuns == 2       \* evaluations of one questionnaire in SpecEngine

\* All strings over alphabet of length at most n.
Strings(alphabet, n) == UNION {[1..k -> alphabet] : k \in 0..n}

TextAlphabet == {"a", "B", " ", "-"}

S_tbd == <<"t", "b", "d">>
S_outbid == <<"o", "u", "t", "b", "i", "d">>
S_pending == <<"p", "e", "n", "d", "i", "n", "g">>
S_suspending == <<"s", "u", "s">> \o S_pending
S_status_pending_review ==
    <<"s", "t", "a", "t", "u", "s", " ", "p", "e", "n", "d", "i", "n", "g", " ",
      "r", "e", "v", "i", "e", "w">>
S_Does_Not_Meet ==
    <<"D", "o", "e", "s", " ", "n", "o", "t", " ", "m", "e", "e", "t">>

\* A category entry as KeywordManager.add_keyword writes it.
Entry(description, examples) ==
    [category |-> "medium_risk", description |-> description, examples |-> examples]

RegistryFile(keywords, patterns) ==
    [status |-> "ok", keywords |-> keywords, patterns |-> patterns]

Pattern(expr, description) == [pattern |-> expr, description |-> description]

RegMissing == [status |-> "missing", keywords |-> <<>>, patterns |-> <<>>]
RegCorrupt == [status |-> "corrupt", keywords |-> <<>>, patterns |-> <<>>]
RegNoKeys == [status |-> "nokeys", keywords |-> <<>>, patterns |-> <<>>]
RegEmpty == RegistryFile(<<>>, <<>>)
\* category "a" holding the term "b"
RegA == RegistryFile(<<"a">> :> Entry(<<"d">>, << <<"b">> >>), <<>>)
\* categories "tbd" holding "tbd", "pending" holding nothing, "AB" holding "b a"
RegTbd ==
    RegistryFile(S_tbd :> Entry(<<"d">>, <<S_tbd>>)
                 @@ S_pending :> Entry(<<"d">>, <<>>)
                 @@ <<"A", "B">> :> Entry(<<"d">>, << <<"b", " ", "a">> >>), <<>>)
\* a category and a term that begin or end with a non-word character
RegPunct == RegistryFile(<<"-", "a">> :> Entry(<<"d">>, << <<"a", "-">> >>), <<>>)
\* patterns only
RegPat ==
    RegistryFile(<<>>, <<Pattern(<<"b", ".">>, "d1"), Pattern(S_pending, "d2")>>)
\* a pattern written in capitals
RegUpper == RegistryFile(<<>>, <<Pattern(<<"A", "B">>, "d1")>>)
\* a category and a pattern
RegBoth ==
    RegistryFile(<<"a">> :> Entry(<<"d">>, << <<"b">> >>),
                 <<Pattern(<<"b">>, "d1")>>)

StructuralRegistries == {RegEmpty, RegBoth}
NarrativeRegistries ==
    {RegMissing, RegCorrupt, RegNoKeys, RegEmpty, RegA, RegTbd, RegPunct, RegPat,
     RegUpper, RegBoth}

Amounts == 0..MaxAmount
Minimums == {0 - 1, 0, 1}
RequiredFieldLists ==
    {DefaultRequiredFields,
     <<"signature_present", "investor_name">>,
     <<"investment_amount", "investor_address">>,
     <<>>}
Configs ==
    [min_investment_amount : Minimums, required_fields : RequiredFieldLists]

\* Questionnaires that vary in what basic_review and decision_maker look at.
StructuralQuestionnaires ==
    [questionnaire_id : {"q1"},
     investor_name : {<<"a">>, <<>>},
     investor_address : {None, Some(<<" ">>), Some(<<"a">>)},
     investment_amount : {None} \cup {Some(n) : n \in Amounts},
     is_accredited_investor : BOOLEAN,
     accreditation_details : {<<"a">>, <<"b">>, S_Does_Not_Meet},
     source_of_funds_description : {<<>>},
     tax_id_provided : BOOLEAN,
     signature_present : BOOLEAN]

\* Complete questionnaires that vary in their narrative text.
NarrativeQuestionnaires ==
    [questionnaire_id : {"q1"},
     investor_name : {<<"a">>},
     investor_address : {Some(<<"a">>)},
     investment_amount : {Some(2)},
     is_accredited_investor : BOOLEAN,
     accreditation_details :
        Strings(TextAlphabet, MaxLen)
            \cup {S_tbd, S_outbid, S_suspending, S_Does_Not_Meet,
                  S_status_pending_review,
                  <<"a", " ">> \o S_Does_Not_Meet},
     source_of_funds_description : {<<>>, <<"a">>},
     tax_id_provided : {TRUE},
     signature_present : {TRUE}]

\* The (questionnaire, configuration) pairs evaluated against a registry file.
EngineInputs(file) ==
    (IF file \in StructuralRegistries
     THEN StructuralQuestionnaires \X Configs ELSE {})
    \cup (NarrativeQuestionnaires \X {DefaultConfig})

LogMissing == [status |-> "missing", content |-> <<>>]
LogCorrupt == [status |-> "corrupt", content |-> <<>>]
\* a log that already holds the record of another questionnaire
LogSeeded ==
    [status |-> "ok",
     content |-> <<[questionnaire_id |-> "q0", decision |-> "Return",
                    missing_fields |-> Some(<<"investor_name">>),
                    escalation_reason |-> None]>>]

\* Nothing added yet.
NothingAdded == [patterns |-> {}, terms |-> {}]

InitEngine ==
    /\ reg_file \in StructuralRegistries \cup NarrativeRegistries
    /\ km = None
    /\ response_file \in {LogMissing, LogSeeded}
    /\ pc = "idle"
    /\ questionnaire = None
    /\ deps = None
    /\ review = None
    /\ response = None
    /\ runs = 0
    /\ last_add = None
    /\ round_trip = None
    /\ fb = None
    /\ last_op = None
    /\ added = NothingAdded
    /\ started_with = None
    /\ batch = <<>>
    /\ idx = 0
    /\ outcomes = <<>>

\* The caller hands a questionnaire to process_questionnaire.
StartEngine ==
    /\ pc = "idle"
    /\ \E in \in EngineInputs(reg_file) : Start(in[1], in[2])
    /\ UNCHANGED <<batch, idx, outcomes>>

\* The caller evaluates the same questionnaire again, under the same configuration.
Rerun ==
    /\ pc = "done"
    /\ runs < MaxRuns
    /\ Start(Q, [min_investment_amount |-> D.min_investment_amount,
                 required_fields |-> D.required_fields])
    /\ UNCHANGED <<batch, idx, outcomes>>

NextEngine ==
    \/ StartEngine
    \/ AgentRunReturns
    \/ AgentRunRaises
    \/ Finish
    \/ Rerun

SpecEngine == InitEngine /\ [][NextEngine]_vars

----------------------------------------------------------------------------
(* The registry and its writers *)

KMCategories == {<<"a">>, S_tbd}
KMKeywords == {<<"b">>, S_tbd}
KMDescriptions == {None, Some("d1")}
KMPatterns == {<<"b", ".">>}
KMPatternDescriptions == {"d1", "d2"}

\* Feedback texts: one word too short and the same long word twice, in two
\* letter cases; nothing but short words.
S_baad == <<"b", "a", "a", "d">>
FeedbackTexts ==
    {S_tbd \o <<" ">> \o <<"B", "A", "A", "D">> \o <<" ", " ">> \o S_baad,
     <<"a", " ">> \o S_tbd}

\* A registry as KeywordManager left it in an earlier session.
RegSeed ==
    RegistryFile(<<"a">> :> Entry(<<"d1">>, << <<"b">> >>),
                 <<Pattern(<<"b", ".">>, "d1")>>)

InitRegistryFrom(files) ==
    /\ reg_file \in files
    /\ km = None
    /\ response_file = LogMissing
    /\ pc = "idle"
    /\ questionnaire = None
    /\ deps = None
    /\ review = None
    /\ response = None
    /\ runs = 0
    /\ last_add = None
    /\ round_trip = None
    /\ fb = None
    /\ last_op = None
    /\ added = NothingAdded
    /\ started_with = None
    /\ batch = <<>>
    /\ idx = 0
    /\ outcomes = <<>>

\* Any registry file: missing, unparseable, parseable without the two entries,
\* or well-formed.
Init == InitRegistryFrom({RegMissing, RegCorrupt, RegNoKeys, RegSeed})

\* A well-formed registry file.
InitWellFormed == InitRegistryFrom({RegEmpty, RegSeed})

\* Some caller uses the KeywordManager, with arguments from the given sets.
RegistryStep(categories, keywords, descriptions, exprs, exprDescriptions) ==
    \/ KM_New
    \/ \E c \in categories, k \in keywords, d \in descriptions :
          KM_AddKeyword(c, k, d)
    \/ \E c \in categories, k \in keywords : KM_RemoveKeyword(c, k)
    \/ \E e \in exprs, d \in exprDescriptions : KM_AddPattern(e, d)
    \/ \E e \in exprs : KM_RemovePattern(e)

\* The feedback process uses its tools, with arguments from the given sets.
FeedbackStep(keywords, exprs, exprDescriptions) ==
    \/ FB_New
    \/ FB_Load
    \/ \E k \in keywords : FB_AddKeyword(k)
    \/ \E e \in exprs, d \in exprDescriptions : FB_AddPattern(e, d)

NextRegistry ==
    \/ RegistryStep(KMCategories, KMKeywords, KMDescriptions, KMPatterns,
                    KMPatternDescriptions)
    \/ \E t \in FeedbackTexts : KM_UpdateFromFeedback(t)

\* The KeywordManager alone.
SpecRegistry == Init /\ [][NextRegistry]_vars

FBKeywords == {<<"a">>, <<"b">>}
FBPatterns == {<<"b", ".">>, <<"a">>}

NextFeedback == FeedbackStep(FBKeywords, FBPatterns, KMPatternDescriptions)

\* The Feedback Loop alone.
SpecFeedback == Init /\ [][NextFeedback]_vars

NextWriters ==
    \/ RegistryStep({<<"a">>}, {<<"b">>}, {None}, {<<"a">>}, {"d1"})
    \/ \E t \in {S_baad} : KM_UpdateFromFeedback(t)
    \/ FeedbackStep({<<"a">>}, KMPatterns, KMPatternDescriptions)

\* A KeywordManager and the Feedback Loop on one well-formed registry file.
SpecWriters == InitWellFormed /\ [][NextWriters]_vars

----------------------------------------------------------------------------
(* main: a batch of records, one process_questionnaire after the other *)

MaxLog == 2        \* records in a batch, so records the response log may gain

\* The fields pydantic requires of a record (submission_date aside, which
\* nothing reads), models.py:9-19.
RequiredOfRecord ==
    {"questionnaire_id", "investor_name", "is_accredited_investor",
     "accreditation_details", "source_of_funds_description", "tax_id_provided",
     "signature_present"}

\* Mutant of ValidationRaises: every record validates.
ValidationRaises_Never(data) == FALSE

\* Questionnaire(**data) raises ValidationError: a required key is absent.
ValidationRaises(data) == data.absent \cap RequiredOfRecord # {}

\* Questionnaire(**data): an absent Optional key takes its default, None.
Questionnaire(data) ==
    [data.fields EXCEPT
        !.investor_address = IF "investor_address" \in data.absent THEN None ELSE @,
        !.investment_amount = IF "investment_amount" \in data.absent THEN None ELSE @]

Complete(id, accredited, details) ==
    [questionnaire_id |-> id,
     investor_name |-> <<"a">>,
     investor_address |-> Some(<<"a">>),
     investment_amount |-> Some(1),
     is_accredited_investor |-> accredited,
     accreditation_details |-> details,
     source_of_funds_description |-> <<>>,
     tax_id_provided |-> TRUE,
     signature_present |-> TRUE]

\* The identifier of the record at position i of a batch.
IdAt(i) == "q" \o ToString(i)

\* The records a batch is made of, for position i: one whose narrative is "-",
\* one whose narrative is "a", one that lacks a required key, one that lacks an
\* Optional key.
RawRecords(i) ==
    {[absent |-> {}, fields |-> Complete(IdAt(i), TRUE, <<"-">>)],
     [absent |-> {}, fields |-> Complete(IdAt(i), TRUE, <<"a">>)],
     [absent |-> {"is_accredited_investor"},
      fields |-> Complete(IdAt(i), TRUE, <<"-">>)],
     [absent |-> {"investor_address"},
      fields |-> Complete(IdAt(i), FALSE, <<"-">>)]}

\* Every batch of n records.
BatchesOfLen(n) ==
    {b \in [1..n -> UNION {RawRecords(i) : i \in 1..n}] :
        \A i \in 1..n : b[i] \in RawRecords(i)}

Batches == UNION {BatchesOfLen(n) : n \in 0..MaxLog}

InitBatchFrom(batches, files, logs) ==
    /\ reg_file \in files
    /\ km = None
    /\ response_file \in logs
    /\ pc = "idle"
    /\ questionnaire = None
    /\ deps = None
    /\ review = None
    /\ response = None
    /\ runs = 0
    /\ last_add = None
    /\ round_trip = None
    /\ fb = None
    /\ last_op = None
    /\ added = NothingAdded
    /\ started_with = None
    /\ batch \in batches
    /\ idx = 0
    /\ outcomes = <<>>

\* main is between two records: before the first, or through with one.
BetweenRecords == pc \in {"idle", "done", "failed", "skipped"}

\* How the record main is through with ended.
WithOutcome == IF idx = 0 THEN outcomes ELSE Append(outcomes, pc)

\* main.py:31-32 and 8-14: the next record of the batch. A record that does not
\* validate is reported and the loop goes on; the others go to
\* process_questionnaire, which builds its Deps with the defaults.
MainNext ==
    /\ BetweenRecords
    /\ idx < Len(batch)
    /\ idx' = idx + 1
    /\ outcomes' = WithOutcome
    /\ UNCHANGED batch
    /\ IF ValidationRaises(batch[idx + 1])
       THEN /\ pc' = "skipped"
            /\ UNCHANGED <<reg_file, response_file, questionnaire, deps, review,
                           response, runs, started_with>>
            /\ UNCHANGED writerVars
       ELSE Start(Questionnaire(batch[idx + 1]), DefaultConfig)

\* main.py:34-37: the loop is over and main returns.
MainReturn ==
    /\ BetweenRecords
    /\ idx = Len(batch)
    /\ pc' = "returned"
    /\ outcomes' = WithOutcome
    /\ UNCHANGED <<reg_file, response_file, questionnaire, deps, review,
                   response, runs, started_with, batch, idx>>
    /\ UNCHANGED writerVars

NextBatch ==
    \/ MainNext
    \/ MainReturn
    \/ AgentRunReturns
    \/ AgentRunRaises
    \/ Finish

InitBatch ==
    InitBatchFrom(Batches, {RegSeed, RegNoKeys}, {LogMissing, LogCorrupt, LogSeeded})

\* main alone.
SpecBatch == InitBatch /\ [][NextBatch]_vars

\* The batch of the whole program: the narrative "a-", twice.
ProgramBatch ==
    <<[absent |-> {}, fields |-> Complete(IdAt(1), TRUE, <<"a", "-">>)],
      [absent |-> {}, fields |-> Complete(IdAt(2), TRUE, <<"a", "-">>)]>>

InitProgram == InitBatchFrom({ProgramBatch}, {RegMissing, RegSeed}, {LogMissing})

Next ==
    \/ NextBatch
    \/ RegistryStep({<<"a">>}, {<<"b">>}, {None}, {<<"a", ".">>}, {"d1"})
    \/ FeedbackStep({<<"a">>}, {<<"a", ".">>}, {"d1"})

\* The program: main, a KeywordManager and the Feedback Loop on one registry file.
Spec == InitProgram /\ [][Next]_vars

\* One record, a registry file that is missing or corrupt until a registry
\* operation writes it, and a log that holds a record already.
FrameBatch == <<ProgramBatch[1]>>

InitFrame == InitBatchFrom({FrameBatch}, {RegMissing, RegCorrupt}, {LogSeeded})

NextFrame ==
    \/ NextBatch
    \/ RegistryStep({<<"a">>}, {<<"b">>}, {None}, {<<"a", ".">>}, {"d1"})
    \/ \E t \in {S_baad} : KM_UpdateFromFeedback(t)
    \/ FeedbackStep({<<"a">>}, {<<"a", ".">>}, {"d1"})

\* main over one record, with every registry operation of a KeywordManager and
\* of the Feedback Loop free to run before, during and after the evaluation.
SpecFrame == InitFrame /\ [][NextFrame]_vars

----------------------------------------------------------------------------
(* What the claims speak of, stated without the code's operators *)

Done == pc = "done"
R == response[1]
Logged == response_file.content[Len(response_file.content)]

\* The amount is present and strictly greater than the configured minimum.
AmountAboveMinimum(q, d) ==
    q.investment_amount # None /\ q.investment_amount[1] > d.min_investment_amount

\* A textual field is null or holds whitespace only.
TextAbsent(v) == v = None \/ \A i \in 1..Len(v[1]) : v[1][i] = " "

\* A required field is deficient: a flag that is not true, a text that is null or
\* whitespace-only, an amount that is null or not strictly greater than the minimum.
Deficient(q, d, f) ==
    CASE f = "signature_present" -> q.signature_present # TRUE
      [] f = "tax_id_provided" -> q.tax_id_provided # TRUE
      [] f = "investor_name" -> TextAbsent(Some(q.investor_name))
      [] f = "investor_address" -> TextAbsent(q.investor_address)
      [] f = "investment_amount" -> ~AmountAboveMinimum(q, d)
      [] OTHER -> FALSE

DeficientFields(q, d) ==
    SelectSeq(d.required_fields, LAMBDA f : Deficient(q, d, f))

\* As Deficient, with a zero amount deficient under every minimum.
DeficientOrZero(q, d, f) ==
    \/ Deficient(q, d, f)
    \/ f = "investment_amount" /\ q.investment_amount = Some(0)

DeficientOrZeroFields(q, d) ==
    SelectSeq(d.required_fields, LAMBDA f : DeficientOrZero(q, d, f))

\* term occurs in text as a whole word, letter case aside: the characters next to
\* the occurrence, if any, are not word characters.
WholeWordIn(term, text) ==
    \E i \in 0..(Len(text) - Len(term)) :
        /\ \A j \in 1..Len(term) : LowerChar(text[i + j]) = LowerChar(term[j])
        /\ i >= 1 => text[i] \notin WordChars
        /\ i + Len(term) < Len(text) => text[i + Len(term) + 1] \notin WordChars

\* term occurs in text, and every occurrence lies inside a longer word: term is
\* made of word characters and has a word character next to it.
OnlyInsideLongerWords(term, text) ==
    /\ \A j \in 1..Len(term) : term[j] \in WordChars
    /\ Contains(text, Lower(term))
    /\ ~WholeWordIn(term, text)

\* The example terms of every category of a registry file.
ExampleTerms(file) ==
    UNION {{file.keywords[c].examples[i] : i \in 1..Len(file.keywords[c].examples)}
           : c \in DOMAIN file.keywords}

\* The scan text of q: both narrative fields, joined by a space, case-folded.
Narrative(q) ==
    [i \in 1..(Len(q.accreditation_details) + 1 + Len(q.source_of_funds_description))
        |-> LowerChar(IF i <= Len(q.accreditation_details)
                      THEN q.accreditation_details[i]
                      ELSE IF i = Len(q.accreditation_details) + 1 THEN " "
                      ELSE q.source_of_funds_description[
                               i - Len(q.accreditation_details) - 1])]

SomePatternMatches(q, patterns) ==
    \E i \in 1..Len(patterns) : PatternSearch(patterns[i].pattern, Narrative(q))

SaysDoesNotMeet(q) == Contains(Narrative(q), DoesNotMeet)

\* No category name of the registry occurs in the narrative, no pattern matches
\* it, and it does not say "does not meet".
NarrativeClean(q, file) ==
    /\ \A c \in DOMAIN file.keywords : ~Contains(Narrative(q), Lower(c))
    /\ ~SomePatternMatches(q, file.patterns)
    /\ ~SaysDoesNotMeet(q)

----------------------------------------------------------------------------
(* C1 *)

\* C1 (as claimed): when some configured required field is deficient (a flag not
\* true, a text null or whitespace-only, an amount null or not strictly greater
\* than the minimum), the Decision is Return and its missing-field list is
\* non-empty and is exactly the deficient configured fields, in configured order.
C1_MissingIsDeficient_Original ==
    Done /\ DeficientFields(Q, D) # <<>>
        => /\ R.decision = "Return"
           /\ R.missing_fields # <<>>
           /\ R.missing_fields = DeficientFields(Q, D)

\* C1 (amended): the same, with an amount of zero counted as deficient under
\* every minimum: deficient amounts are null, zero, or at most the minimum.
C1_MissingIsDeficientOrZero ==
    Done /\ DeficientOrZeroFields(Q, D) # <<>>
        => /\ R.decision = "Return"
           /\ R.missing_fields # <<>>
           /\ R.missing_fields = DeficientOrZeroFields(Q, D)

\* C1 witness: two or more deficient fields, a zero amount above a negative
\* minimum among them, under a list that is not the default one.
C1_Witness ==
    /\ Done
    /\ Len(DeficientOrZeroFields(Q, D)) >= 2
    /\ D.required_fields # DefaultRequiredFields
    /\ Q.investment_amount = Some(0)
    /\ D.min_investment_amount < 0
    /\ R.decision = "Return"

----------------------------------------------------------------------------
(* C2 *)

\* C2 (as claimed): an amount that is absent or at most the configured minimum
\* makes decision_maker return Return, for every minimum and every required-field
\* list, also one that does not name investment_amount.
C2_InsufficientAmountReturns ==
    Done /\ ~AmountAboveMinimum(Q, D) => review[1].decision = "Return"

----------------------------------------------------------------------------
(* C3 *)

\* C3 (as claimed, for an amount that is not zero): an accredited questionnaire
\* with no deficient field and an amount above the minimum whose narrative holds, as a whole word, an example
\* term of some category of the persisted registry is escalated with the reason
\* "Ambiguous source of funds".
C3_ExampleTermEscalates ==
    /\ Done
    /\ Q.is_accredited_investor
    /\ DeficientFields(Q, D) = <<>>
    /\ AmountAboveMinimum(Q, D) /\ Q.investment_amount # Some(0)
    /\ \E t \in ExampleTerms(reg_file) : WholeWordIn(t, Narrative(Q))
    => /\ R.decision = "Escalate"
       /\ R.escalation_reason = Some(ReasonAmbiguous)

----------------------------------------------------------------------------
(* C4 *)

\* C4 (as claimed): when the missing-field list is non-empty or the amount is
\* insufficient, the Text Screener is not consulted for the classification and the
\* classification is Return; so an Escalate Decision has no missing fields.
C4_IncompleteNeverScreened ==
    Done =>
        /\ (review[1].missing # <<>> \/ ~AmountAboveMinimum(Q, D))
              => ~review[1].consulted /\ R.decision = "Return"
        /\ R.decision = "Escalate"
              => R.missing_fields = <<>> /\ Logged.missing_fields = None

----------------------------------------------------------------------------
(* C5 *)

\* C5 (as claimed): accreditation flag false, no deficient required field and an
\* amount strictly above the minimum give Escalate, whatever the registry and the
\* narrative hold.
C5_NotAccreditedEscalates_Original ==
    /\ Done
    /\ ~Q.is_accredited_investor
    /\ DeficientFields(Q, D) = <<>>
    /\ AmountAboveMinimum(Q, D)
    => R.decision = "Escalate"

\* C5 (amended): the same for an amount that is not zero.
C5_NotAccreditedEscalates ==
    /\ Done
    /\ ~Q.is_accredited_investor
    /\ DeficientFields(Q, D) = <<>>
    /\ AmountAboveMinimum(Q, D)
    /\ Q.investment_amount # Some(0)
    => R.decision = "Escalate"

\* C5 witness: such a questionnaire whose narrative matches a registered pattern.
C5_Witness ==
    /\ Done
    /\ ~Q.is_accredited_investor
    /\ DeficientFields(Q, D) = <<>>
    /\ AmountAboveMinimum(Q, D)
    /\ Q.investment_amount # Some(0)
    /\ SomePatternMatches(Q, reg_file.patterns)
    /\ R.decision = "Escalate"

----------------------------------------------------------------------------
(* C6 *)

\* C6 (as claimed): a questionnaire escalated because its accreditation flag is
\* false carries no escalation reason, whatever its narrative holds.
C6_NotAccreditedReasonless_Original ==
    Done /\ ~Q.is_accredited_investor /\ R.decision = "Escalate"
        => R.escalation_reason = None /\ Logged.escalation_reason = None

\* C6 (amended): such a questionnaire is classified without the Text Screener,
\* but its Decision carries the reason the Text Screener gives for the narrative:
\* none when the narrative holds no category name of the registry, matches no
\* pattern and does not say "does not meet"; "Ambiguous source of funds" when a
\* pattern matches; some reason when it says "does not meet".
C6_NotAccreditedReasonFromText ==
    Done /\ ~Q.is_accredited_investor /\ R.decision = "Escalate"
        => /\ ~review[1].consulted
           /\ Logged.escalation_reason = R.escalation_reason
           /\ NarrativeClean(Q, reg_file) => R.escalation_reason = None
           /\ SomePatternMatches(Q, reg_file.patterns)
                 => R.escalation_reason = Some(ReasonAmbiguous)
           /\ SaysDoesNotMeet(Q)
                 => R.escalation_reason \in {Some(ReasonAmbiguous),
                                             Some(ReasonNotAccredited)}

\* C6 witness: escalated for the flag, and the Decision says "Investor is not
\* accredited" because of the narrative.
C6_Witness ==
    /\ Done
    /\ ~Q.is_accredited_investor
    /\ R.decision = "Escalate"
    /\ ~review[1].consulted
    /\ Logged.escalation_reason = Some(ReasonNotAccredited)

----------------------------------------------------------------------------
(* C7 *)

\* C7 (as claimed, for an amount that is not zero): accreditation true, every
\* required field present, amount above the minimum and a narrative holding no registered keyword, matching no
\* registered pattern and not saying "does not meet" give a logged record with
\* decision Approve, missing_fields null and escalation_reason null.
C7_CleanIsApproved ==
    /\ Done
    /\ Q.is_accredited_investor
    /\ DeficientFields(Q, D) = <<>>
    /\ AmountAboveMinimum(Q, D) /\ Q.investment_amount # Some(0)
    /\ \A t \in ExampleTerms(reg_file) : ~WholeWordIn(t, Narrative(Q))
    /\ ~SomePatternMatches(Q, reg_file.patterns)
    /\ ~SaysDoesNotMeet(Q)
    => /\ Logged.decision = "Approve"
       /\ Logged.missing_fields = None
       /\ Logged.escalation_reason = None

----------------------------------------------------------------------------
(* C8 *)

\* The keywords the Text Screener is handed and goes through.
ScannedKeywords == ScreenedKeywords(D)

\* Some keyword handed to the Text Screener occurs in the narrative only inside
\* longer words, and nothing else triggers the Text Screener.
C8_Case ==
    /\ Done
    /\ \E k \in ScannedKeywords :
          /\ OnlyInsideLongerWords(k, Narrative(Q))
          /\ \A k2 \in ScannedKeywords \ {k} : ~KeywordSearch(k2, Narrative(Q))
    /\ ~SomePatternMatches(Q, D.suspicious_patterns)
    /\ ~SaysDoesNotMeet(Q)

\* C8: a keyword of the Text Screener that occurs in the scan text only as part
\* of longer words does not make it report anything: with no other keyword, no
\* pattern and no "does not meet" matching, the Text Screener returns none, both
\* when decision_maker consults it and when the reason of an escalation is asked.
C8_SubstringDoesNotTrigger ==
    C8_Case =>
        /\ review[1].consulted => review[1].ambiguity = None
        /\ R.escalation_reason = None

\* C8 witness: the keyword "pending" against the narrative "suspending",
\* screened and approved.
C8_Witness ==
    /\ C8_Case
    /\ S_pending \in ScannedKeywords
    /\ Q.accreditation_details = S_suspending
    /\ review[1].consulted
    /\ review[1].ambiguity = None
    /\ R.decision = "Approve"

----------------------------------------------------------------------------
(* C9 *)

\* The records the evaluations of this questionnaire appended to the log.
OwnRecords ==
    {response_file.content[i] :
        i \in (Len(response_file.content) - runs + 1)..Len(response_file.content)}

----------------------------------------------------------------------------
(* C10 *)

RT == round_trip[1]

\* The term was among the examples of the category before the add.
PresentBefore ==
    /\ RT.category \in DOMAIN RT.before
    /\ RT.keyword \in Elements(RT.before[RT.category].examples)

\* C10 (as claimed): add_keyword(category, term) followed by
\* remove_keyword(category, term) leaves the keyword set as it was before the
\* add, from every starting state, also one where the term is already in the
\* category and one where the category does not exist.
C10_AddRemoveRestores_Original ==
    round_trip # None
        => get_all_keywords(RT.after) = get_all_keywords(RT.before)

\* C10 (amended): from every starting state in which the term is not already
\* among the examples of the category, add_keyword followed by remove_keyword
\* leaves the keyword set as it was before the add: every category that existed
\* has its entry back unchanged, and a category the add created stays, with no
\* examples.
C10_AddRemoveRestores ==
    round_trip # None /\ ~PresentBefore
        => /\ get_all_keywords(RT.after) = get_all_keywords(RT.before)
           /\ \A c \in DOMAIN RT.before :
                 c \in DOMAIN RT.after /\ RT.after[c] = RT.before[c]
           /\ \A c \in DOMAIN RT.after \ DOMAIN RT.before :
                 c = RT.category /\ RT.after[c].examples = <<>>

\* C10 witness: the round trip on a category that did not exist, in a registry
\* that holds the same term in another category.
C10_Witness ==
    /\ round_trip # None
    /\ RT.category \notin DOMAIN RT.before
    /\ RT.keyword \in get_all_keywords(RT.before)
    /\ RT.category \in DOMAIN RT.after

----------------------------------------------------------------------------
(* What the registry claims speak of *)

\* The persisted registry holds a list of pattern entries.
HasPatterns(f) == f.status \in {"ok", "listed", "patterns_only"}

\* No two entries of a pattern list carry the same expression text.
DistinctExpressions(patterns) ==
    \A i, j \in 1..Len(patterns) :
        i # j => patterns[i].pattern # patterns[j].pattern

\* No category of a keyword mapping holds the same example term twice.
DistinctExamples(keywords) ==
    \A c \in DOMAIN keywords :
        \A i, j \in 1..Len(keywords[c].examples) :
            i # j => keywords[c].examples[i] # keywords[c].examples[j]

----------------------------------------------------------------------------
(* C11 *)

\* C11 (as claimed): after any sequence of registry operations of the
\* KeywordManager and of the Feedback Loop, started from a well-formed registry,
\* the persisted registry holds no two pattern entries with the same expression
\* text and no category with the same example term twice.
C11_NoDuplicates ==
    /\ HasPatterns(reg_file) => DistinctExpressions(reg_file.patterns)
    /\ reg_file.status = "ok" => DistinctExamples(reg_file.keywords)

----------------------------------------------------------------------------
(* C12 *)

\* Two registry files hold the same: the status is compared first, since the
\* keywords of a file are a mapping or a list according to it.
SameFile(f, g) == f.status = g.status /\ f = g

\* Two in-memory registries of a KeywordManager hold the same.
SameManager(m, n) ==
    IF m = None \/ n = None THEN m = n
    ELSE m[1].listed = n[1].listed /\ m = n

\* Two in-memory registries of the Feedback Loop hold the same.
SameFeedbackDeps(m, n) ==
    IF m = None \/ n = None THEN m = n
    ELSE m[1].listed = n[1].listed /\ m = n

\* The step is an add operation that found what it was to add already in the
\* caller's registry: the term among the examples of its category (among the
\* keywords, for the Feedback Loop), or the expression text among the patterns.
AddOfPresent ==
    /\ last_op' # None
    /\ last_op'[1].op \in {"add_keyword", "add_pattern"}
    /\ last_op'[1].present

\* C12 (as claimed): an add operation of the KeywordManager or of the Feedback
\* Loop whose keyword is already in its category, or whose expression is already
\* among the patterns, changes neither the in-memory registry nor the persisted
\* registry and performs no save.
C12_AddIdempotent ==
    [][AddOfPresent =>
          /\ ~last_op'[1].wrote
          /\ SameFile(reg_file', reg_file)
          /\ SameManager(km', km)
          /\ SameFeedbackDeps(fb', fb)]_vars

----------------------------------------------------------------------------
(* C13 *)

\* The persisted registry holds what the KeywordManager holds in memory.
PersistedIsManager ==
    /\ Parses(reg_file)
    /\ (reg_file.status = "listed") = KM.listed
    /\ reg_file.keywords = KM.keywords
    /\ reg_file.patterns = KM.patterns

\* The persisted registry holds what the Feedback Loop holds in memory.
PersistedIsFeedbackDeps ==
    /\ Parses(reg_file)
    /\ (reg_file.status = "listed") = FB.listed
    /\ reg_file.keywords = FB.current_keywords
    /\ reg_file.patterns = FB.current_patterns

\* The last registry operation was an add or a remove, and it returned.
MutationCompleted ==
    /\ last_op # None
    /\ last_op[1].op \in {"add_keyword", "add_pattern", "remove_keyword",
                          "remove_pattern"}
    /\ last_op[1].returned

\* C13 (as claimed): after every completed add or remove operation, of the
\* Registry Store and of the Feedback Loop, also one that met a missing registry
\* file, the persisted registry equals the in-memory registry of the caller.
C13_MutationsPersisted ==
    MutationCompleted =>
        IF last_op[1].actor = "km" THEN PersistedIsManager
        ELSE PersistedIsFeedbackDeps

----------------------------------------------------------------------------
(* C14 *)

\* The statuses of a persisted registry that is missing, unparseable, or
\* parseable but lacking the keywords or the patterns entry.
BadStorage == {"missing", "corrupt", "nokeys", "keywords_only", "patterns_only"}

\* The last registry operation was a load that met bad storage.
LoadOfBadStorage ==
    /\ last_op # None
    /\ last_op[1].op = "load"
    /\ last_op[1].met \in BadStorage

\* The in-memory registry of the one that loaded is empty.
LoaderIsEmpty ==
    IF last_op[1].actor = "km"
    THEN km # None /\ KM.keywords = <<>> /\ KM.patterns = <<>>
    ELSE fb # None /\ FB.current_keywords = <<>> /\ FB.current_patterns = <<>>

\* The persisted registry is well formed and empty.
PersistedIsEmpty ==
    /\ Parses(reg_file)
    /\ reg_file.keywords = <<>>
    /\ reg_file.patterns = <<>>

\* C14 (as claimed): a load that meets a missing or corrupt persisted registry
\* (unparseable, or parseable but lacking the keywords or patterns entry) does
\* not fail, leaves the registry empty and persists the empty registry at once.
C14_LoadRecovers ==
    LoadOfBadStorage =>
        /\ last_op[1].returned
        /\ LoaderIsEmpty
        /\ PersistedIsEmpty

----------------------------------------------------------------------------
(* C15 *)

\* The pattern expressions of the persisted registry.
PersistedExpressions ==
    IF HasPatterns(reg_file)
    THEN {reg_file.patterns[i].pattern : i \in 1..Len(reg_file.patterns)}
    ELSE {}

\* The terms of the persisted registry, each with its category; the terms of a
\* flat keyword list, as the Feedback Loop writes it, have the category <<>>.
PersistedTerms ==
    IF reg_file.status = "ok"
    THEN UNION {{<<c, e>> : e \in Elements(reg_file.keywords[c].examples)} :
                c \in DOMAIN reg_file.keywords}
    ELSE IF reg_file.status = "listed"
    THEN {<<<<>>, k>> : k \in Elements(reg_file.keywords)}
    ELSE {}

\* C15 (as claimed): whatever the interleaving of the load-modify-save cycles of
\* a KeywordManager and of the Feedback Loop on one registry file, the persisted
\* registry contains every term and every pattern that either of them added
\* successfully (and that no remove operation took back).
C15_NoLostUpdates ==
    /\ added.patterns \subseteq PersistedExpressions
    /\ added.terms \subseteq PersistedTerms

----------------------------------------------------------------------------
(* C16 *)

\* The step is the end of a successful process_questionnaire call.
CallSucceeds == pc = "decide" /\ pc' = "done"

\* The records a log holds, oldest first; a missing or unreadable log holds none.
Records(f) == f.content

\* The log after the step is the log before it with one record more, at the
\* end, and that record is the one of the questionnaire just evaluated.
OneRecordAppended ==
    /\ response_file'.status = "ok"
    /\ Len(Records(response_file')) = Len(Records(response_file)) + 1
    /\ SubSeq(Records(response_file'), 1, Len(Records(response_file)))
          = Records(response_file)
    /\ Records(response_file')[Len(Records(response_file'))].questionnaire_id
          = Q.questionnaire_id

\* C16: the Response Log is append-only. Every successful process_questionnaire
\* call leaves the log it found with exactly one record appended at the end,
\* the record of its questionnaire; nothing else changes the log. So no record
\* is ever removed, edited or reordered and the log is in processing order.
C16_LogAppendOnly ==
    [][IF CallSucceeds THEN OneRecordAppended
       ELSE response_file' = response_file]_vars

\* A log that held one record has, after a batch of two, the three records in
\* the order in which they were processed.
C16_Witness ==
    /\ Done
    /\ idx = 2
    /\ Len(Records(response_file)) = 3
    /\ Records(response_file)[1] = LogSeeded.content[1]
    /\ Records(response_file)[2].questionnaire_id = IdAt(1)
    /\ Records(response_file)[3].questionnaire_id = IdAt(2)

----------------------------------------------------------------------------
(* C17 *)

\* A record of the batch is malformed: it lacks a key the Questionnaire requires.
Malformed(data) == \E k \in data.absent : k \in RequiredOfRecord

\* main has returned: every record of the batch has had its turn.
BatchOver == pc = "returned"

\* The identifiers of the records of the batch whose evaluation completed, in
\* input order.
RECURSIVE DecidedFrom(_)
DecidedFrom(i) ==
    IF i > Len(outcomes) THEN <<>>
    ELSE IF outcomes[i] = "done" THEN <<IdAt(i)>> \o DecidedFrom(i + 1)
    ELSE DecidedFrom(i + 1)

\* The identifiers of the records of a log, oldest first.
IdsOf(records) == [j \in 1..Len(records) |-> records[j].questionnaire_id]

\* The log is the records it held before the batch, untouched, followed by one
\* record for each evaluation of the batch that completed, in input order.
LogIsBatchInOrder ==
    \E before \in {<<>>, LogSeeded.content} :
        /\ Len(response_file.content) >= Len(before)
        /\ SubSeq(response_file.content, 1, Len(before)) = before
        /\ IdsOf(response_file.content) = IdsOf(before) \o DecidedFrom(1)

----------------------------------------------------------------------------
(* C18 *)

\* The evaluation is over and it called the Text Screener: decision_maker
\* consulted it, or process_questionnaire asked it for the reason of an Escalate.
Screened == Done /\ (review[1].consulted \/ R.decision = "Escalate")

\* What the Text Screener returned to the evaluation.
ScreenerReturned ==
    IF review[1].consulted THEN review[1].ambiguity ELSE R.escalation_reason

\* Some keyword handed to the Text Screener matches the narrative as a whole word.
SomeKeywordMatches == \E k \in ScannedKeywords : KeywordSearch(k, Narrative(Q))

\* Some pattern handed to the Text Screener matches the narrative.
SomeScreenedPatternMatches == SomePatternMatches(Q, D.suspicious_patterns)

\* C18: the Text Screener checks keywords, then patterns, then the phrase "does
\* not meet", and stops at the first match. It returns "Investor is not
\* accredited" exactly when the narrative says "does not meet" and neither a
\* keyword nor a pattern matches; "Ambiguous source of funds" whenever a keyword
\* or a pattern matches, also when the narrative says "does not meet" as well;
\* and nothing otherwise. Both calls of one evaluation return the same.
C18_ScreenerPrecedence ==
    Screened =>
        /\ ScreenerReturned = Some(ReasonNotAccredited)
              <=> /\ SaysDoesNotMeet(Q)
                  /\ ~SomeKeywordMatches
                  /\ ~SomeScreenedPatternMatches
        /\ SomeKeywordMatches \/ SomeScreenedPatternMatches
              => ScreenerReturned = Some(ReasonAmbiguous)
        /\ ~SomeKeywordMatches /\ ~SomeScreenedPatternMatches /\ ~SaysDoesNotMeet(Q)
              => ScreenerReturned = None
        /\ review[1].consulted /\ R.decision = "Escalate"
              => R.escalation_reason = review[1].ambiguity

\* The narrative "a Does not meet" with the keyword "a": the keyword wins.
C18_Witness ==
    /\ Screened
    /\ review[1].consulted
    /\ Q.accreditation_details = <<"a", " ">> \o S_Does_Not_Meet
    /\ <<"a">> \in ScannedKeywords
    /\ ~SomeScreenedPatternMatches
    /\ ScreenerReturned = Some(ReasonAmbiguous)
    /\ Logged.escalation_reason = Some(ReasonAmbiguous)

----------------------------------------------------------------------------
(* C19 *)

\* expr, made of literal characters and ".", matches text somewhere: at some
\* offset every element of expr stands against a character it accepts, letter
\* case aside.
MatchesSomewhere(expr, text) ==
    \E i \in 0..(Len(text) - Len(expr)) :
        \A j \in 1..Len(expr) :
            expr[j] = "." \/ LowerChar(expr[j]) = LowerChar(text[i + j])

\* Some pattern of the persisted registry matches the narrative somewhere.
RegisteredPatternMatches ==
    /\ Parses(reg_file)
    /\ \E i \in 1..Len(reg_file.patterns) :
          MatchesSomewhere(reg_file.patterns[i].pattern, Narrative(Q))

\* Accredited, no required field deficient, an amount above the minimum that is
\* not zero (a zero amount is returned whatever the minimum).
OtherwiseApprovable ==
    /\ Q.is_accredited_investor
    /\ DeficientFields(Q, D) = <<>>
    /\ AmountAboveMinimum(Q, D) /\ Q.investment_amount # Some(0)

\* C19: registered patterns are searched for anywhere in the narrative, letter
\* case aside. An otherwise approvable questionnaire whose narrative holds a
\* match of a registered pattern, wherever in the text, is escalated with the
\* reason "Ambiguous source of funds", with or without a keyword match.
C19_PatternAnywhereEscalates ==
    Done /\ OtherwiseApprovable /\ RegisteredPatternMatches
        => /\ R.decision = "Escalate"
           /\ R.escalation_reason = Some(ReasonAmbiguous)
           /\ Logged.decision = "Escalate"
           /\ Logged.escalation_reason = Some(ReasonAmbiguous)

\* "status pending review" with the registered pattern pending, no keyword
\* registered: the match lies in the middle of the text.
C19_Witness ==
    /\ Done
    /\ OtherwiseApprovable
    /\ Q.accreditation_details = S_status_pending_review
    /\ reg_file = RegPat
    /\ ScannedKeywords = {}
    /\ Logged.decision = "Escalate"
    /\ Logged.escalation_reason = Some(ReasonAmbiguous)

\* The pattern AB, in capitals, is found in a narrative that holds "aB" and more.
C19_CaseWitness ==
    /\ Done
    /\ OtherwiseApprovable
    /\ reg_file = RegUpper
    /\ Len(Q.accreditation_details) = 3
    /\ RegisteredPatternMatches
    /\ Logged.escalation_reason = Some(ReasonAmbiguous)

----------------------------------------------------------------------------
(* C20 *)

\* The Deps an evaluation has when it works with the registry file f throughout.
DepsOver(f) ==
    MakeDeps([min_investment_amount |-> D.min_investment_amount,
              required_fields |-> D.required_fields],
             load_suspicious_terms(f))

\* The registry file as it was when the evaluation under way started.
Snapshot == started_with[1]

\* An evaluation has loaded the registry and has not been given up.
Evaluating == pc \in {"agent_run", "decide", "done"}

\* C20: one evaluation uses one registry snapshot. From the load at the start of
\* process_questionnaire on, the evaluation holds the terms of the registry file
\* as it was at that moment, and the classification and the escalation reason of
\* its Decision are those that snapshot gives, whatever the Registry Store and
\* the Feedback Loop have written to the file since.
C20_OneSnapshot ==
    Evaluating =>
        /\ D = DepsOver(Snapshot)
        /\ Done =>
              /\ R.decision = decision_maker(Q, DepsOver(Snapshot))
              /\ R.escalation_reason =
                    EscalationReason(Q, DepsOver(Snapshot), R.decision)
              /\ Logged = ResponseDict(MakeResponse(Q, DepsOver(Snapshot)))

\* C20 witness: the second evaluation of a batch. The file was written during
\* the first evaluation, which was decided as its own snapshot says; the second
\* one started after that and sees the written terms; and the file has been
\* written again since in a way that would change the second decision too.
C20_Witness ==
    /\ Done
    /\ idx = 2
    /\ outcomes = <<"done">>
    /\ response_file.content[1].decision = "Approve"
    /\ Logged.decision = "Escalate"
    /\ reg_file # Snapshot
    /\ decision_maker(Q, DepsOver(reg_file)) # R.decision

\* The file was written while the evaluation was under way, and the Decision is
\* not the one the file as written would give.
C20_WrittenMeanwhile ==
    /\ Done
    /\ reg_file # Snapshot
    /\ decision_maker(Q, DepsOver(reg_file)) # R.decision

----------------------------------------------------------------------------
(* C21 *)

\* The step belongs to main and process_questionnaire: the position of the
\* evaluation or of the batch moves. Every other step is a registry operation
\* of the KeywordManager or of the Feedback Loop.
EvaluationStep == pc' # pc \/ idx' # idx

\* The step is the load at the start of process_questionnaire.
EvaluationStarts == pc # "agent_run" /\ pc' = "agent_run"

\* C21: the frame of the two paths. No step of process_questionnaire changes
\* the persisted registry; started over a missing or corrupt registry file it
\* screens against an empty registry and leaves the file as it is. No registry
\* operation (load, save, add, remove, update_from_feedback) changes the
\* Response Log.
C21_Frame ==
    [][/\ IF EvaluationStep THEN reg_file' = reg_file
          ELSE response_file' = response_file
       /\ EvaluationStarts /\ reg_file.status \in {"missing", "corrupt"}
             => /\ deps'[1].suspicious_keywords = <<>>
                /\ deps'[1].suspicious_patterns = <<>>]_vars

\* C21 witness: an evaluation that met no registry file has logged its
\* Decision after the record the log held; update_from_feedback has then written
\* the registry, and the log still holds both records.
C21_Witness ==
    /\ Done
    /\ Snapshot.status = "missing"
    /\ D.suspicious_keywords = <<>>
    /\ last_op # None
    /\ last_op[1].op = "update_from_feedback"
    /\ last_op[1].wrote
    /\ Len(response_file.content) = 2
    /\ response_file.content[1] = LogSeeded.content[1]
    /\ Logged.questionnaire_id = Q.questionnaire_id

\* An evaluation over a corrupt registry file is through and the file is as
\* corrupt as it was.
C21_StillCorrupt ==
    /\ Done
    /\ Snapshot.status = "corrupt"
    /\ reg_file = Snapshot
    /\ Logged.decision = "Approve"

====
